---- MODULE Spec2Model ----
(***************************************************************************)
(* Index maintenance of the notes service (src/app/storage.py) as a state  *)
(* machine over a blob store with generation-conditioned writes.           *)
(*                                                                         *)
(* Text (blob contents, names, storage keys) is a string, and the str      *)
(* methods the code uses (strip, split, splitlines, join, in) are computed *)
(* character by character as Python computes them.                         *)
(***************************************************************************)
EXTENDS Integers, Sequences, FiniteSets, TLC

(***************************************************************************)
(* Characters and the str methods the code uses.                           *)
(***************************************************************************)

\* str.strip() / str.split() with no argument: the whitespace characters.
Whitespace == {" ", "\n", "\t", "\r", "\f"}

\* str.splitlines(): the line boundaries among the characters used here.
LineBreaks == {"\n", "\r", "\f"}

\* chr(127): the character DEL stands raw between the quotes
DEL == ""

\* storage.py:34  ord(char) < 32 or ord(char) == 127
ControlChars == {"\n", "\t", "\r", "\f", DEL}

\* storage.py:38  problematic_chars = r'[/\\:*?"<>|\.]'
ProblematicChars == {"/", "\\", ":", "*", "?", "\"", "<", ">", "|", "."}

\* s[i] and s[-1]
Char(s, i) == SubSeq(s, i, i)
Last(s) == SubSeq(s, Len(s), Len(s))

RECURSIVE LStrip(_, _)
LStrip(s, cs) ==
    IF s = "" THEN ""
    ELSE IF Head(s) \in cs THEN LStrip(Tail(s), cs) ELSE s

RECURSIVE RStrip(_, _)
RStrip(s, cs) ==
    IF s = "" THEN ""
    ELSE IF Last(s) \in cs THEN RStrip(SubSeq(s, 1, Len(s) - 1), cs) ELSE s

\* a bug: nothing is stripped
StripCharsNone(s, cs) == s

\* str.strip(chars)
StripChars(s, cs) == RStrip(LStrip(s, cs), cs)

\* str.strip()
Strip(s) == StripChars(s, Whitespace)

\* needle in hay (substring containment of two str)
Contains(hay, needle) ==
    \E i \in 1..(Len(hay) - Len(needle) + 1) :
        SubSeq(hay, i, i + Len(needle) - 1) = needle

\* s.split(sep) for separators of one character: the parts, empty ones included
RECURSIVE SplitOn(_, _, _)
SplitOn(s, seps, acc) ==
    IF s = "" THEN <<acc>>
    ELSE IF Head(s) \in seps THEN <<acc>> \o SplitOn(Tail(s), seps, "")
    ELSE SplitOn(Tail(s), seps, acc \o Head(s))

\* str.splitlines(): split at line boundaries, no empty last line
SplitLines(s) ==
    IF s = "" THEN <<>>
    ELSE LET parts == SplitOn(s, LineBreaks, "")
         IN  IF parts[Len(parts)] = ""
             THEN SubSeq(parts, 1, Len(parts) - 1) ELSE parts

\* sep.join(parts)
RECURSIVE Join(_, _)
Join(parts, sep) ==
    IF parts = <<>> THEN ""
    ELSE IF Len(parts) = 1 THEN parts[1]
    ELSE parts[1] \o sep \o Join(Tail(parts), sep)

\* "_".join(segment.split()): every whitespace run becomes one underscore
\* (the segment was stripped before, so no run is at either end)
RECURSIVE CollapseWhitespace(_)
CollapseWhitespace(s) ==
    IF s = "" THEN ""
    ELSE IF Head(s) \in Whitespace
         THEN "_" \o CollapseWhitespace(LStrip(s, Whitespace))
         ELSE Head(s) \o CollapseWhitespace(Tail(s))

\* a bug: the characters are left in
RemoveCharsNone(s, cs) == s

\* "".join(char for char in segment if char not in cs)
RECURSIVE RemoveChars(_, _)
RemoveChars(s, cs) ==
    IF s = "" THEN ""
    ELSE IF Head(s) \in cs THEN RemoveChars(Tail(s), cs)
    ELSE Head(s) \o RemoveChars(Tail(s), cs)

\* a bug: re.sub with count=1, only the first match is replaced
RECURSIVE ReplaceCharsOnce(_, _, _)
ReplaceCharsOnce(s, cs, c) ==
    IF s = "" THEN ""
    ELSE IF Head(s) \in cs THEN c \o Tail(s)
    ELSE Head(s) \o ReplaceCharsOnce(Tail(s), cs, c)

\* re.sub('[cs]', c, segment)
RECURSIVE ReplaceChars(_, _, _)
ReplaceChars(s, cs, c) ==
    IF s = "" THEN ""
    ELSE (IF Head(s) \in cs THEN c ELSE Head(s)) \o ReplaceChars(Tail(s), cs, c)

\* a bug: the underscores are stripped before the characters are replaced
sanitizeStripsFirst(segment) ==
    LET s1 == Strip(segment)
        s2 == CollapseWhitespace(s1)
        s3 == RemoveChars(s2, ControlChars)
        s4 == StripChars(s3, {"_"})
        s5 == ReplaceChars(s4, ProblematicChars, "_")
    IN  IF s5 = "" THEN "unnamed" ELSE s5

\* storage.py sanitize
sanitize(segment) ==
    LET s1 == Strip(segment)
        s2 == CollapseWhitespace(s1)
        s3 == RemoveChars(s2, ControlChars)
        s4 == ReplaceChars(s3, ProblematicChars, "_")
        s5 == StripChars(s4, {"_"})
    IN  IF s5 = "" THEN "unnamed" ELSE s5

\* [part for part in section.split("/") if part]
SectionParts(section) ==
    SelectSeq(SplitOn(section, {"/"}, ""), LAMBDA part : part /= "")

\* [sanitize(part) for part in parts]
SanitizeAll(parts) == [i \in 1..Len(parts) |-> sanitize(parts[i])]

\* storage.py note_path
note_path(project, section, title) ==
    "notes/" \o sanitize(project) \o "/"
        \o Join(SanitizeAll(SectionParts(section)), "/") \o "/" \o sanitize(title) \o ".md"

\* storage.py _index_path(project): section is None
ProjectIndexPath(project) == "notes/" \o sanitize(project) \o "/_index.md"

\* storage.py _index_path(project, section)
SectionIndexPath(project, section) ==
    "notes/" \o sanitize(project) \o "/"
        \o Join(SanitizeAll(SectionParts(section)), "/") \o "/_index.md"

(***************************************************************************)
(* Index document texts.                                                   *)
(***************************************************************************)

\* f"- [[{name}]]"
LinkLine(name) == "- [[" \o name \o "]]"

\* f"# {project}\n\nSections:\n- [[{top_level_section}]]\n"
ProjectIndexText(project, top) ==
    "# " \o project \o "\n\nSections:\n" \o LinkLine(top) \o "\n"

\* f"# {display_name}\n\nSubsections and notes:\n"
IntermediateIndexText(display) == "# " \o display \o "\n\nSubsections and notes:\n"

\* f"# {display_name}\n\nNotes in this section:\n"
FinalIndexText(display) == "# " \o display \o "\n\nNotes in this section:\n"

\* f"# {display_name}\n\nNotes in this section:\n- [[{title}]]\n"
LeafIndexText(display, title) ==
    "# " \o display \o "\n\nNotes in this section:\n" \o LinkLine(title) \o "\n"

\* main.py _timestamp_header: f"\n## {now}\n"; the reading of the clock is T
TimestampHeader == "\n## T\n"

\* new_content = f"# {payload.title}\n" + _timestamp_header() + payload.body.strip() + "\n"
FreshContent(title, body) ==
    "# " \o title \o "\n" \o TimestampHeader \o Strip(body) \o "\n"

\* new_content = existing_content.rstrip() + _timestamp_header() + payload.body.strip() + "\n"
AppendedContent(existing, body) ==
    RStrip(existing, Whitespace) \o TimestampHeader \o Strip(body) \o "\n"

\* a bug: the text is not stripped before the link is added
AppendLinkUnstripped(current, link) == current \o "\n" \o link \o "\n"

\* new_content = current.strip() + "\n" + link_line + "\n"
AppendLink(current, link) == Strip(current) \o "\n" \o link \o "\n"

\* a bug: the whole text compared with the link line
LinkInTextExact(link, current) == current = link

\* storage.py:160, 220  link_line in current
LinkInText(link, current) == Contains(current, link)

\* a bug: any link line taken for the link
LinkInLinesAny(link, current) == Contains(current, "- [[")

\* storage.py:265  link_line in current.splitlines()
LinkInLines(link, current) ==
    LET lines == SplitLines(current)
    IN  link \in {lines[n] : n \in 1..Len(lines)}

(***************************************************************************)
(* The requests.  Init draws the sequence of write requests from pools     *)
(* that make the workers meet on the same index documents.                 *)
(***************************************************************************)

\* requests in the largest pool of writers that add distinct links to one document
MaxPool == 6

Digits == <<"1", "2", "3", "4", "5", "6", "7", "8", "9">>

\* NotePayload (models.py:3-8)
Note(project, section, title, body, mode) ==
    [project |-> project, section |-> section, title |-> title,
     body |-> body, mode |-> mode]

\* a request that replaces the note body
Request(project, section, title) == Note(project, section, title, "b", "replace")

\* n writers, n distinct titles, one section (update_section_index meets)
DistinctTitles(n) ==
    [i \in 1..n |-> Request("p", "a", Digits[i])]

\* n writers, n distinct top-level sections, one project (the project index meets)
DistinctSections(n) ==
    [i \in 1..n |-> Request("p", Digits[i] \o "/b", "t")]

\* the same request, n times
Repeated(r, n) == [i \in 1..n |-> r]

DistinctPools ==
    [n \in 1..MaxPool |-> DistinctTitles(n)]
    \o [n \in 1..(MaxPool - 1) |-> DistinctSections(n + 1)]

\* two entries appended to one note
AppendedEntries ==
    <<Request("p", "a", "t"), Note("p", "a", "t", "x", "append"),
      Note("p", "a", "t", " y\n", "append")>>

Pools ==
    DistinctPools
    \o <<Repeated(Request("p", "x", "t"), 2),
         Repeated(Request("p", "a/b", "t"), 3),
         \* nested sections that share ancestors
         <<Request("p", "a/b", "t"), Request("p", "a/c", "u"), Request("p", "a", "t")>>,
         \* a section with no part
         <<Request("p", "", "t"), Request("p", "a", "t")>>,
         \* names that sanitize to the same key
         <<Request("p", "a", "t"), Request("p.", "a.", "t")>>,
         \* a link line inside another link line
         <<Request("p", "a]]x", "t"), Request("p", "a", "t")>>,
         \* a title of two lines
         Repeated(Request("p", "a", "t\nu"), 2),
         AppendedEntries,
         \* a title that looks like the name of an index document
         <<Request("p", "a", "_index"), Note("p", "a", "_index", "x", "append")>>>>

(***************************************************************************)
(* Bounds and program constants.                                           *)
(***************************************************************************)

\* _retry_on_conflict(func, max_retries = 5)
MaxRetries == 5

\* request handlers running at the same time
NumWorkers == 2

\* objects an outside party deletes from the bucket (SpecDel only)
MaxDeletes == 1

Workers == 1..NumWorkers

VARIABLES
    store,      \* the bucket: storage key -> [gen, text] of the objects that exist
    lastGen,    \* storage key -> the last generation given to an object at that key
    pool,       \* which pool of Pools the requests are (fixed by Init)
    nxt,        \* index in calls of the next request to be taken up
    wk,         \* per worker: position in the request it is handling
    results,    \* per request: how it ended and at which step; for a conflict, the
                \* attempts that failed; whether it ran alone after an equal request
                \* returned; the note body it read and the generation its upload made
    writes,     \* history: the successful writes, as [key, id, op]
    deleted,    \* history: number of objects deleted by an outside party
    arg,        \* the arguments of a call of a pure function (sanitize, _truncate_content)
    ret         \* what that call returned

vars == <<store, lastGen, pool, nxt, wk, results, writes, deleted, arg, ret>>

\* the variables of the calls of pure functions
pure == <<arg, ret>>

\* the write requests, in arrival order
calls == Pools[pool]

Idle == [pc |-> "idle", id |-> 0, lvl |-> 0, attempt |-> 0, fails |-> 0,
         gen |-> 0, cur |-> ""]

Req(w) == calls[wk[w].id]
Parts(w) == SectionParts(Req(w).section)

(***************************************************************************)
(* The blob store (google.cloud.storage as the code uses it).              *)
(***************************************************************************)

Exists(key) == key \in DOMAIN store

\* a bug: the write without its precondition
GenerationIgnored(key, generation) == Exists(key)

\* the precondition if_generation_match = generation, generation /= 0
GenerationMatches(key, generation) ==
    Exists(key) /\ store[key].gen = generation

\* generations of one object only grow, also across its deletion
NewGeneration(key) == IF key \in DOMAIN lastGen THEN lastGen[key] + 1 ELSE 1

\* a successful upload_from_string of text to key by worker w in step op
Put(w, key, text, op) ==
    /\ store' = [k \in DOMAIN store \cup {key} |->
                    IF k = key THEN [gen |-> NewGeneration(key), text |-> text]
                    ELSE store[k]]
    /\ lastGen' = [k \in DOMAIN lastGen \cup {key} |->
                      IF k = key THEN NewGeneration(key) ELSE lastGen[k]]
    /\ writes' = writes \cup {[key |-> key, id |-> wk[w].id, op |-> op]}

NoPut == UNCHANGED <<store, lastGen, writes>>

(***************************************************************************)
(* _retry_on_conflict (storage.py:98-115) and the ways a step ends.        *)
(***************************************************************************)

\* bugs: the budget one attempt short, and one attempt long
LastAttemptEarly(attempt) == attempt = MaxRetries - 2
LastAttemptLate(attempt) == attempt = MaxRetries

\* except PreconditionFailed: if attempt == max_retries - 1: raise
LastAttempt(attempt) == attempt = MaxRetries - 1

\* the request of worker w ends: it returned, or the exception reached the caller
Finish(w, status) ==
    /\ results' = [results EXCEPT ![wk[w].id] =
                      [@ EXCEPT !.status = status, !.at = wk[w].pc,
                                !.fails = IF status = "conflict"
                                          THEN wk[w].fails + 1 ELSE 0]]
    /\ wk' = [wk EXCEPT ![w] = Idle]

\* a bug: a loop that does not count its attempts
PreconditionFailedUncounted(w, first) ==
    /\ wk' = [wk EXCEPT ![w] = [@ EXCEPT !.pc = first, !.gen = 0, !.cur = ""]]
    /\ UNCHANGED results

\* func() raised PreconditionFailed; first is the first step of func
PreconditionFailed(w, first) ==
    IF LastAttempt(wk[w].attempt)
    THEN Finish(w, "conflict")
    ELSE /\ wk' = [wk EXCEPT ![w] = [@ EXCEPT !.pc = first, !.attempt = @ + 1,
                                               !.fails = @ + 1, !.gen = 0, !.cur = ""]]
         /\ UNCHANGED results

\* func() raised NotFound: re-raised at once (storage.py:103-106)
NotFound(w) == Finish(w, "notfound")

\* func() returned: the worker goes on with step pc at level lvl, a fresh retry loop
GoOn(w, pc, lvl) ==
    /\ wk' = [wk EXCEPT ![w] = [@ EXCEPT !.pc = pc, !.lvl = lvl, !.attempt = 0,
                                         !.fails = 0, !.gen = 0, !.cur = ""]]
    /\ UNCHANGED results

\* the same func() goes on with its next step
Step(w, pc, gen, cur) ==
    /\ wk' = [wk EXCEPT ![w] = [@ EXCEPT !.pc = pc, !.gen = gen, !.cur = cur]]
    /\ UNCHANGED results

\* blob.reload() of an object that is gone: the library raises NotFound; the
\* code also provides for a generation of None (storage.py:154, 208).
ReloadAbsentOutcomes == {"NotFound", "None"}

(***************************************************************************)
(* create_or_update_note (main.py:146-148): ensure_index_files, then       *)
(* update_section_index.  One action per store operation.                  *)
(***************************************************************************)

\* request i has the arguments of a request that has returned without error,
\* and no other request is in progress
IsRerun(i) ==
    /\ \E j \in 1..Len(calls) : results[j].status = "ok" /\ calls[j] = calls[i]
    /\ \A v \in Workers : wk[v].pc = "idle"

\* a bug: in mode replace the index maintenance runs without the upload of
\* the note body
StartIndexFirst(w) ==
    /\ wk[w].pc = "idle"
    /\ nxt <= Len(calls)
    /\ nxt' = nxt + 1
    /\ wk' = [wk EXCEPT ![w] =
                IF calls[nxt].mode = "replace"
                THEN [Idle EXCEPT !.id = nxt,
                                  !.pc = IF SectionParts(calls[nxt].section) = <<>>
                                         THEN "u_create" ELSE "p_create"]
                ELSE [Idle EXCEPT !.id = nxt, !.pc = "n_exists"]]
    /\ results' = [i \in 1..Len(calls) |->
                      IF i = nxt
                      THEN [results[i] EXCEPT !.status = "running", !.rerun = IsRerun(nxt)]
                      ELSE IF results[i].status = "running"
                      THEN [results[i] EXCEPT !.rerun = FALSE]
                      ELSE results[i]]
    /\ UNCHANGED <<store, lastGen, pool, writes, deleted, pure>>

\* A worker takes up the next request (main.py:135-142).  In mode replace
\* the new content is computed without a look at the store.
Start(w) ==
    /\ wk[w].pc = "idle"
    /\ nxt <= Len(calls)
    /\ nxt' = nxt + 1
    /\ wk' = [wk EXCEPT ![w] =
                IF calls[nxt].mode = "replace"
                THEN [Idle EXCEPT !.id = nxt, !.pc = "n_upload",
                                  !.cur = FreshContent(calls[nxt].title, calls[nxt].body)]
                ELSE [Idle EXCEPT !.id = nxt, !.pc = "n_exists"]]
    /\ results' = [i \in 1..Len(calls) |->
                      IF i = nxt
                      THEN [results[i] EXCEPT !.status = "running", !.rerun = IsRerun(nxt)]
                      ELSE IF results[i].status = "running"
                      THEN [results[i] EXCEPT !.rerun = FALSE]
                      ELSE results[i]]
    /\ UNCHANGED <<store, lastGen, pool, writes, deleted, pure>>

\* ---- create_or_update_note, the note body (main.py:135-144) ----

NotePath(w) == note_path(Req(w).project, Req(w).section, Req(w).title)

\* not storage.blob_exists(blob_path), in mode append
NExists(w) ==
    /\ wk[w].pc = "n_exists"
    /\ IF ~Exists(NotePath(w))
       THEN Step(w, "n_upload", 0, FreshContent(Req(w).title, Req(w).body))
       ELSE Step(w, "n_download", 0, "")
    /\ NoPut
    /\ UNCHANGED <<pool, nxt, deleted, pure>>

\* existing_content = storage.download_blob_text(blob_path): no precondition;
\* NotFound is not caught
NDownload(w) ==
    /\ wk[w].pc = "n_download"
    /\ IF ~Exists(NotePath(w)) THEN NotFound(w)
       ELSE LET existing == store[NotePath(w)].text
            IN  /\ wk' = [wk EXCEPT ![w] =
                            [@ EXCEPT !.pc = "n_upload",
                                      !.cur = AppendedContent(existing, Req(w).body)]]
                /\ results' = [results EXCEPT ![wk[w].id] = [@ EXCEPT !.read = existing]]
    /\ NoPut
    /\ UNCHANGED <<pool, nxt, deleted, pure>>

\* a bug: the upload appends to what the store holds at that moment
NUploadMerging(w) ==
    /\ wk[w].pc = "n_upload"
    /\ Put(w, NotePath(w),
           IF Exists(NotePath(w)) /\ Req(w).mode = "append"
           THEN AppendedContent(store[NotePath(w)].text, Req(w).body)
           ELSE wk[w].cur, "n_upload")
    /\ wk' = [wk EXCEPT ![w] =
                [@ EXCEPT !.pc = IF Parts(w) = <<>> THEN "u_create" ELSE "p_create",
                          !.cur = ""]]
    /\ results' = [results EXCEPT ![wk[w].id] =
                      [@ EXCEPT !.noteGen = NewGeneration(NotePath(w))]]
    /\ UNCHANGED <<pool, nxt, deleted, pure>>

\* storage.upload_blob_text(blob_path, new_content): no precondition.  Then
\* ensure_index_files, which returns at once when the section has no part
\* (storage.py:127-130), and update_section_index.
NUpload(w) ==
    /\ wk[w].pc = "n_upload"
    /\ Put(w, NotePath(w), wk[w].cur, "n_upload")
    /\ wk' = [wk EXCEPT ![w] =
                [@ EXCEPT !.pc = IF Parts(w) = <<>> THEN "u_create" ELSE "p_create",
                          !.cur = ""]]
    /\ results' = [results EXCEPT ![wk[w].id] =
                      [@ EXCEPT !.noteGen = NewGeneration(NotePath(w))]]
    /\ UNCHANGED <<pool, nxt, deleted, pure>>

\* ---- ensure_index_files._update_project_index (storage.py:136-166) ----

\* upload_from_string(..., if_generation_match=0)
PCreate(w) ==
    /\ wk[w].pc = "p_create"
    /\ LET key == ProjectIndexPath(Req(w).project)
       IN  IF ~Exists(key)
           THEN /\ Put(w, key, ProjectIndexText(Req(w).project, Parts(w)[1]), "p_create")
                /\ GoOn(w, "s_create", 1)
           ELSE /\ NoPut
                /\ Step(w, "p_reload", 0, "")
    /\ UNCHANGED <<pool, nxt, deleted, pure>>

\* blob.reload(); generation = blob.generation
PReload(w) ==
    /\ wk[w].pc = "p_reload"
    /\ LET key == ProjectIndexPath(Req(w).project)
       IN  IF Exists(key)
           THEN Step(w, "p_download", store[key].gen, "")
           ELSE \E outcome \in ReloadAbsentOutcomes :
                   IF outcome = "NotFound" THEN NotFound(w)
                   ELSE PreconditionFailed(w, "p_create")
    /\ NoPut
    /\ UNCHANGED <<pool, nxt, deleted, pure>>

\* current = blob.download_as_text(if_generation_match=generation);
\* if link_line in current: return
PDownload(w) ==
    /\ wk[w].pc = "p_download"
    /\ LET key == ProjectIndexPath(Req(w).project)
           link == LinkLine(Parts(w)[1])
       IN  IF ~Exists(key) THEN NotFound(w)
           ELSE IF ~GenerationMatches(key, wk[w].gen)
           THEN PreconditionFailed(w, "p_create")
           ELSE IF LinkInText(link, store[key].text)
           THEN GoOn(w, "s_create", 1)
           ELSE Step(w, "p_upload", wk[w].gen, store[key].text)
    /\ NoPut
    /\ UNCHANGED <<pool, nxt, deleted, pure>>

\* blob.upload_from_string(new_content, if_generation_match=generation)
PUpload(w) ==
    /\ wk[w].pc = "p_upload"
    /\ LET key == ProjectIndexPath(Req(w).project)
           link == LinkLine(Parts(w)[1])
       IN  IF GenerationMatches(key, wk[w].gen)
           THEN /\ Put(w, key, AppendLink(wk[w].cur, link), "p_update")
                /\ GoOn(w, "s_create", 1)
           ELSE /\ NoPut
                /\ PreconditionFailed(w, "p_create")
    /\ UNCHANGED <<pool, nxt, deleted, pure>>

\* ---- ensure_index_files, the loop over the levels (storage.py:171-232) ----

\* a bug: the whole section at every level
PartialSectionWhole(w) == Join(Parts(w), "/")

\* "/".join(section_parts[:i+1]) and its index path, for the worker's level
PartialSection(w) == Join(SubSeq(Parts(w), 1, wk[w].lvl), "/")
LevelPath(w) == SectionIndexPath(Req(w).project, PartialSection(w))
IsLastLevel(w) == wk[w].lvl = Len(Parts(w))

\* the create-if-absent of level lvl; PreconditionFailed is passed over
SCreate(w) ==
    /\ wk[w].pc = "s_create"
    /\ LET key == LevelPath(w)
           display == Parts(w)[wk[w].lvl]
       IN  IF ~Exists(key)
           THEN Put(w, key, IF IsLastLevel(w) THEN FinalIndexText(display)
                            ELSE IntermediateIndexText(display), "s_create")
           ELSE NoPut
    /\ IF IsLastLevel(w) THEN GoOn(w, "u_create", wk[w].lvl)
       ELSE GoOn(w, "s_reload", wk[w].lvl)
    /\ UNCHANGED <<pool, nxt, deleted, pure>>

\* _update_subsection_index: blob.reload(); a generation of None is skipped
SReload(w) ==
    /\ wk[w].pc = "s_reload"
    /\ LET key == LevelPath(w)
       IN  IF Exists(key)
           THEN Step(w, "s_download", store[key].gen, "")
           ELSE \E outcome \in ReloadAbsentOutcomes :
                   IF outcome = "NotFound" THEN NotFound(w)
                   ELSE GoOn(w, "s_create", wk[w].lvl + 1)
    /\ NoPut
    /\ UNCHANGED <<pool, nxt, deleted, pure>>

\* _update_subsection_index: the download; NotFound is skipped
SDownload(w) ==
    /\ wk[w].pc = "s_download"
    /\ LET key == LevelPath(w)
           link == LinkLine(Parts(w)[wk[w].lvl + 1])
       IN  IF ~Exists(key) THEN GoOn(w, "s_create", wk[w].lvl + 1)
           ELSE IF ~GenerationMatches(key, wk[w].gen)
           THEN PreconditionFailed(w, "s_reload")
           ELSE IF LinkInText(link, store[key].text)
           THEN GoOn(w, "s_create", wk[w].lvl + 1)
           ELSE Step(w, "s_upload", wk[w].gen, store[key].text)
    /\ NoPut
    /\ UNCHANGED <<pool, nxt, deleted, pure>>

\* _update_subsection_index: the conditional upload
SUpload(w) ==
    /\ wk[w].pc = "s_upload"
    /\ LET key == LevelPath(w)
           link == LinkLine(Parts(w)[wk[w].lvl + 1])
       IN  IF GenerationMatches(key, wk[w].gen)
           THEN /\ Put(w, key, AppendLink(wk[w].cur, link), "s_update")
                /\ GoOn(w, "s_create", wk[w].lvl + 1)
           ELSE /\ NoPut
                /\ PreconditionFailed(w, "s_reload")
    /\ UNCHANGED <<pool, nxt, deleted, pure>>

\* ---- update_section_index._update (storage.py:234-273) ----

LeafPath(w) == SectionIndexPath(Req(w).project, Req(w).section)

\* display_name = section_parts[-1] if section_parts else section
LeafDisplay(w) ==
    IF Parts(w) /= <<>> THEN Parts(w)[Len(Parts(w))] ELSE Req(w).section

UCreate(w) ==
    /\ wk[w].pc = "u_create"
    /\ IF ~Exists(LeafPath(w))
       THEN /\ Put(w, LeafPath(w), LeafIndexText(LeafDisplay(w), Req(w).title), "u_create")
            /\ Finish(w, "ok")
       ELSE /\ NoPut
            /\ Step(w, "u_reload", 0, "")
    /\ UNCHANGED <<pool, nxt, deleted, pure>>

UReload(w) ==
    /\ wk[w].pc = "u_reload"
    /\ IF Exists(LeafPath(w))
       THEN Step(w, "u_download", store[LeafPath(w)].gen, "")
       ELSE \E outcome \in ReloadAbsentOutcomes :
               IF outcome = "NotFound" THEN NotFound(w)
               ELSE PreconditionFailed(w, "u_create")
    /\ NoPut
    /\ UNCHANGED <<pool, nxt, deleted, pure>>

UDownload(w) ==
    /\ wk[w].pc = "u_download"
    /\ LET key == LeafPath(w)
           link == LinkLine(Req(w).title)
       IN  IF ~Exists(key) THEN NotFound(w)
           ELSE IF ~GenerationMatches(key, wk[w].gen)
           THEN PreconditionFailed(w, "u_create")
           ELSE IF LinkInLines(link, store[key].text)
           THEN Finish(w, "ok")
           ELSE Step(w, "u_upload", wk[w].gen, store[key].text)
    /\ NoPut
    /\ UNCHANGED <<pool, nxt, deleted, pure>>

UUpload(w) ==
    /\ wk[w].pc = "u_upload"
    /\ LET key == LeafPath(w)
           link == LinkLine(Req(w).title)
       IN  IF GenerationMatches(key, wk[w].gen)
           THEN /\ Put(w, key, AppendLink(wk[w].cur, link), "u_update")
                /\ Finish(w, "ok")
           ELSE /\ NoPut
                /\ PreconditionFailed(w, "u_create")
    /\ UNCHANGED <<pool, nxt, deleted, pure>>

\* An outside party deletes an object of the bucket (not done by the service).
Delete ==
    /\ deleted < MaxDeletes
    /\ \E key \in DOMAIN store :
          store' = [k \in DOMAIN store \ {key} |-> store[k]]
    /\ deleted' = deleted + 1
    /\ UNCHANGED <<lastGen, pool, nxt, wk, results, writes, pure>>

Next ==
    \E w \in Workers :
        \/ Start(w)
        \/ NExists(w) \/ NDownload(w) \/ NUpload(w)
        \/ PCreate(w) \/ PReload(w) \/ PDownload(w) \/ PUpload(w)
        \/ SCreate(w) \/ SReload(w) \/ SDownload(w) \/ SUpload(w)
        \/ UCreate(w) \/ UReload(w) \/ UDownload(w) \/ UUpload(w)

NextDel == Next \/ Delete

\* requests in the pools of the specification Spec
SmallPool == 3

\* no pure function is being called
NoCall == [fn |-> "none"]

\* what is not touched by a call of a pure function
service == <<store, lastGen, pool, nxt, wk, results, writes, deleted>>

InitAny ==
    /\ pool \in 1..Len(Pools)
    /\ store = <<>>
    /\ lastGen = <<>>
    /\ nxt = 1
    /\ wk = [w \in Workers |-> Idle]
    /\ results = [i \in 1..Len(calls) |->
                     [status |-> "todo", at |-> "idle", fails |-> 0, rerun |-> FALSE,
                      read |-> "", noteGen |-> 0]]
    /\ writes = {}
    /\ deleted = 0
    /\ arg = NoCall
    /\ ret = NoCall

\* the pools of at most SmallPool requests
Init == InitAny /\ Len(calls) <= SmallPool

Spec == Init /\ [][Next]_vars

\* the same with an outside party that deletes objects
SpecDel == Init /\ [][NextDel]_vars

\* up to MaxPool writers that add distinct links to one document, and the
\* writers that append to one note
InitConv == InitAny /\ (pool \in 1..Len(DistinctPools) \/ calls = AppendedEntries)

SpecConv == InitConv /\ [][Next]_vars

(***************************************************************************)
(* Calls of sanitize on the segments of a bounded alphabet.                *)
(***************************************************************************)

\* characters of a segment
MaxSegment == 3

\* a letter, whitespace, control and problematic characters, the
\* underscore, and a character that is none of these
SegmentChars == {"a", " ", "\n", DEL, "_", "/", "\\", ".", "~"}

RECURSIVE StringsOver(_, _)
StringsOver(chars, n) ==
    IF n = 0 THEN {""}
    ELSE LET shorter == StringsOver(chars, n - 1)
         IN  shorter \cup {c \o s : c \in chars, s \in shorter}

Segments == StringsOver(SegmentChars, MaxSegment)

InitSan ==
    /\ pool = 1
    /\ store = <<>>
    /\ lastGen = <<>>
    /\ nxt = 1
    /\ wk = [w \in Workers |-> Idle]
    /\ results = <<>>
    /\ writes = {}
    /\ deleted = 0
    /\ arg \in {[fn |-> "sanitize", segment |-> s] : s \in Segments}
    /\ ret = NoCall

\* return sanitize(segment)
Sanitize ==
    /\ arg.fn = "sanitize"
    /\ ret = NoCall
    /\ ret' = [fn |-> "sanitize", value |-> sanitize(arg.segment)]
    /\ UNCHANGED <<service, arg>>

SpecSan == InitSan /\ [][Sanitize]_vars

(***************************************************************************)
(* _truncate_content (main.py:34-109) and calls of it.                     *)
(***************************************************************************)

Min(a, b) == IF a <= b THEN a ELSE b
Max(a, b) == IF a >= b THEN a ELSE b

\* s[:n], n >= 0
Take(s, n) == SubSeq(s, 1, Min(n, Len(s)))

\* s[n:], n >= 0
Drop(s, n) == SubSeq(s, Min(n, Len(s)) + 1, Len(s))

\* s[-n:], n >= 0: the last n characters, and all of s when n = 0 (s[-0:] is s[0:])
TakeLast(s, n) ==
    IF n = 0 THEN s ELSE SubSeq(s, Max(1, Len(s) - n + 1), Len(s))

\* main.py:29-31
TRUNCATE_EXISTING == "...(existing)\n"
TRUNCATE_NEW_ENTRY == "\n...(new entry)\n"
TRUNCATE_ELLIPSIS == "\n...\n"

\* int(char_limit * 0.2) and int(char_limit * 0.4): for the limits up to
\* 100000 the float product truncates to these quotients
Fifth(limit) == (limit * 2) \div 10
TwoFifths(limit) == (limit * 4) \div 10

\* content[:half_limit] + _TRUNCATE_ELLIPSIS + content[-half_limit:]
HeadAndTail(content, limit) ==
    LET half_limit == limit \div 2
    IN  Take(content, half_limit) \o TRUNCATE_ELLIPSIS \o TakeLast(content, half_limit)

\* main.py _truncate_content; existing = "" stands for None and for "",
\* which the code does not tell apart (if existing_content:)
truncate_content(content, mode, existing, limit) ==
    IF Len(content) <= limit THEN content
    ELSE IF mode = "replace" THEN HeadAndTail(content, limit)
    ELSE IF existing = "" THEN HeadAndTail(content, limit)
    ELSE LET start_pos == Len(RStrip(existing, Whitespace))
             new_content == Drop(content, start_pos)
             existing_chars == Fifth(limit)
             new_first_chars == TwoFifths(limit)
             new_last_chars == TwoFifths(limit)
             has_truncated_existing == existing_chars < Len(existing)
             truncated_existing == IF has_truncated_existing
                                   THEN TakeLast(existing, existing_chars)
                                   ELSE existing
             prefix == IF has_truncated_existing THEN TRUNCATE_EXISTING ELSE ""
         IN  IF Len(new_content) <= new_first_chars + new_last_chars
             THEN prefix \o truncated_existing \o new_content
             ELSE prefix \o truncated_existing \o TRUNCATE_NEW_ENTRY
                      \o Take(new_content, new_first_chars)
                      \o TRUNCATE_ELLIPSIS
                      \o TakeLast(new_content, new_last_chars)

\* the largest char_limit, and the most characters of a content
MaxLimit == 12
MaxContent == 40

RECURSIVE Repeat(_, _)
Repeat(c, n) == IF n = 0 THEN "" ELSE c \o Repeat(c, n - 1)

\* the contents, and the previous contents: none, short (with and without
\* trailing whitespace), and long
Contents == {Repeat("c", n) : n \in 0..MaxContent}
Existing == {"", "eee", "eee \n", Repeat("e", MaxContent), Repeat("e", MaxContent) \o "\n"}

InitTrunc ==
    /\ pool = 1
    /\ store = <<>>
    /\ lastGen = <<>>
    /\ nxt = 1
    /\ wk = [w \in Workers |-> Idle]
    /\ results = <<>>
    /\ writes = {}
    /\ deleted = 0
    /\ arg \in {[fn |-> "truncate", content |-> c, mode |-> m, existing |-> e, limit |-> l] :
                  c \in Contents, m \in {"replace", "append"}, e \in Existing,
                  l \in 0..MaxLimit}
    /\ ret = NoCall

\* return _truncate_content(content, mode, existing_content, char_limit)
Truncate ==
    /\ arg.fn = "truncate"
    /\ ret = NoCall
    /\ ret' = [fn |-> "truncate",
               value |-> truncate_content(arg.content, arg.mode, arg.existing, arg.limit)]
    /\ UNCHANGED <<service, arg>>

SpecTrunc == InitTrunc /\ [][Truncate]_vars


(***************************************************************************)
(* What the properties speak of.                                           *)
(***************************************************************************)

CallIds == 1..Len(calls)
Status(i) == results[i].status

\* request i ended with an exception
Failed(i) == Status(i) \in {"conflict", "notfound"}

\* every request has been taken up and has ended
AllDone == nxt > Len(calls) /\ \A w \in Workers : wk[w].pc = "idle"

\* the successful writes of request i to index documents, and those of the step op
WritesOf(i) == {wr \in writes : wr.id = i /\ wr.op /= "n_upload"}
WritesBy(op) == {wr \in writes : wr.op = op}

\* the document at key exists and its text contains the link to name
HasLink(key, name) == Exists(key) /\ Contains(store[key].text, LinkLine(name))

\* s.startswith(prefix)
StartsWith(s, prefix) ==
    Len(s) >= Len(prefix) /\ SubSeq(s, 1, Len(prefix)) = prefix

\* the lines of a text that are links
LinkLinesOf(text) ==
    LET lines == SplitLines(text)
    IN  {n \in 1..Len(lines) : StartsWith(lines[n], "- [[")}

\* the text has exactly one line `- [[name]]` for each name and no other link line
ExactLinks(text, names) ==
    LET lines == SplitLines(text)
    IN  /\ Cardinality(LinkLinesOf(text)) = Cardinality(names)
        /\ \A name \in names :
              Cardinality({n \in 1..Len(lines) : lines[n] = LinkLine(name)}) = 1

\* the positions of a text at which the link stands as complete lines
LinkPositions(text, link) ==
    {p \in 1..(Len(text) - Len(link) + 1) :
        /\ SubSeq(text, p, p + Len(link) - 1) = link
        /\ p = 1 \/ Char(text, p - 1) \in LineBreaks
        /\ p + Len(link) > Len(text) \/ Char(text, p + Len(link)) \in LineBreaks}

\* the names the requests use
SectionNames == UNION {{SectionParts(calls[i].section)[n] :
                          n \in 1..Len(SectionParts(calls[i].section))} : i \in CallIds}
TopSectionNames == {SectionParts(calls[i].section)[1] :
                        i \in {j \in CallIds : SectionParts(calls[j].section) /= <<>>}}
TitleNames == {calls[i].title : i \in CallIds}
AllNames == SectionNames \cup TitleNames \cup {calls[i].project : i \in CallIds}

\* no name has a line break or a bracket in it
PlainNames ==
    \A name \in AllNames :
        \A c \in LineBreaks \cup {"[", "]"} : ~Contains(name, c)

\* the requests add distinct titles to the index of one section
TitlesMeet ==
    /\ \A i, j \in CallIds :
          /\ calls[i].project = calls[j].project
          /\ calls[i].section = calls[j].section
          /\ (i /= j => calls[i].title /= calls[j].title)
    /\ SectionParts(calls[1].section) /= <<>>

\* the requests add distinct top-level sections to the index of one project
SectionsMeet ==
    \A i, j \in CallIds :
        /\ calls[i].project = calls[j].project
        /\ SectionParts(calls[i].section) /= <<>>
        /\ (i /= j => SectionParts(calls[i].section)[1] /= SectionParts(calls[j].section)[1])

\* the document the requests meet on has one link line per request
MeetingDocumentExact ==
    IF TitlesMeet
    THEN LET key == SectionIndexPath(calls[1].project, calls[1].section)
         IN  Exists(key) /\ ExactLinks(store[key].text, TitleNames)
    ELSE LET key == ProjectIndexPath(calls[1].project)
         IN  Exists(key) /\ ExactLinks(store[key].text, TopSectionNames)

(***************************************************************************)
(* C1                                                                      *)
(***************************************************************************)

\* C1 as stated: for every number N of writers that each add a distinct link
\* to one index document, once all have ended every writer has returned
\* without error and the document has exactly N link lines, each once.
C1_AllWritersSucceed ==
    (TitlesMeet \/ SectionsMeet)
        => /\ \A i \in CallIds : ~Failed(i)
           /\ AllDone => MeetingDocumentExact

\* C1 amended: the same for at most MaxRetries writers whose names have no
\* line break and no bracket in them.
C1_UpToBudgetWritersSucceed ==
    ((TitlesMeet \/ SectionsMeet) /\ PlainNames /\ Len(calls) <= MaxRetries)
        => /\ \A i \in CallIds : ~Failed(i)
           /\ AllDone => MeetingDocumentExact

\* MaxRetries writers with distinct titles have all ended, each having
\* written its link into the one leaf index by a conditional write
C1_Witness ==
    /\ TitlesMeet /\ PlainNames /\ Len(calls) = MaxRetries /\ AllDone
    /\ Cardinality(WritesBy("u_update")) = MaxRetries

(***************************************************************************)
(* C2                                                                      *)
(***************************************************************************)

\* the index path of the first n parts of the section of request i
PrefixPath(i, n) ==
    SectionIndexPath(calls[i].project,
                     Join(SubSeq(SectionParts(calls[i].section), 1, n), "/"))

\* C2: for every request with k >= 1 section parts that has returned without
\* error, the project index exists and has the link to part 1, the index of
\* every prefix of the section exists, the index of each prefix of length
\* n < k has the link to part n+1, and the leaf index has the link to the title.
C2_WrittenNotesAreIndexed ==
    \A i \in CallIds :
        LET parts == SectionParts(calls[i].section)
            k == Len(parts)
        IN  (Status(i) = "ok" /\ k >= 1)
                => /\ HasLink(ProjectIndexPath(calls[i].project), parts[1])
                   /\ \A n \in 1..k :
                         /\ Exists(PrefixPath(i, n))
                         /\ n < k => HasLink(PrefixPath(i, n), parts[n + 1])
                         /\ n = k => HasLink(PrefixPath(i, n), calls[i].title)

\* a request with a nested section has returned, and a second subsection
\* was linked into an intermediate index that already existed
C2_Witness ==
    /\ \E i \in CallIds : Status(i) = "ok" /\ Len(SectionParts(calls[i].section)) = 2
    /\ WritesBy("s_update") /= {}
    /\ \E wr \in WritesBy("s_update") : store[wr.key].gen >= 3

(***************************************************************************)
(* C3                                                                      *)
(***************************************************************************)

\* C3: no index document contains the same link line `- [[<name>]]` more
\* than once.
C3_NoDuplicateLinks ==
    \A key \in DOMAIN store : \A name \in AllNames :
        Cardinality(LinkPositions(store[key].text, LinkLine(name))) <= 1

(***************************************************************************)
(* C4                                                                      *)
(***************************************************************************)

\* C4: every step of every writer leaves each existing index document in
\* existence, with every link it contained.
C4_Monotone ==
    [][\A key \in DOMAIN store :
          /\ key \in DOMAIN store'
          /\ \A name \in AllNames :
                Contains(store[key].text, LinkLine(name))
                    => Contains(store'[key].text, LinkLine(name))]_vars

\* a document was rewritten by a conditional write while another writer, which
\* had lost a conditional read or write on it, is at its next attempt
C4_Witness ==
    /\ \E wr \in writes : wr.op /= "n_upload" /\ store[wr.key].gen >= 3
    /\ \E w \in Workers : wk[w].fails >= 1

(***************************************************************************)
(* C5                                                                      *)
(***************************************************************************)

\* two requests with the same arguments and a section of one part
TwoEqualRequests ==
    /\ Len(calls) = 2
    /\ calls[1] = calls[2]
    /\ Len(SectionParts(calls[1].section)) = 1

\* C5: when two writers run ensure_index_files with the same arguments on an
\* empty store, neither ends with an error, the project index and the section
\* index are each created once, and ensure_index_files writes neither of them
\* a second time.
C5_OneCreationPerLevel ==
    TwoEqualRequests
        => /\ \A i \in CallIds : ~Failed(i)
           /\ Cardinality(WritesBy("p_create")) <= 1
           /\ Cardinality(WritesBy("s_create")) <= 1
           /\ WritesBy("p_update") = {} /\ WritesBy("s_update") = {}
           /\ AllDone => /\ Cardinality(WritesBy("p_create")) = 1
                         /\ Cardinality(WritesBy("s_create")) = 1
                         /\ \A i \in CallIds : Status(i) = "ok"

\* both writers were in ensure_index_files at once and each lost a creation
C5_Witness ==
    /\ TwoEqualRequests /\ AllDone
    /\ \E a \in WritesBy("p_create"), b \in WritesBy("s_create") : a.id /= b.id

(***************************************************************************)
(* C6                                                                      *)
(***************************************************************************)

\* C6: a request ends with a conflict only after MaxRetries attempts of one
\* update have failed, and an update that goes on (to a next attempt or to a
\* return) has fewer than MaxRetries failed attempts.
C6_ConflictIffBudgetExhausted ==
    /\ \A i \in CallIds : Status(i) = "conflict" => results[i].fails = MaxRetries
    /\ \A w \in Workers : wk[w].fails < MaxRetries

\* a request ended with a conflict
C6_Witness ==
    \E i \in CallIds : Status(i) = "conflict" /\ results[i].fails = MaxRetries

(***************************************************************************)
(* C7                                                                      *)
(***************************************************************************)

\* the steps of one attempt, in order
StepIndex(pc) ==
    CASE pc \in {"n_exists", "p_create", "s_create", "u_create"} -> 0
      [] pc \in {"n_download", "p_reload", "s_reload", "u_reload"} -> 1
      [] pc \in {"n_upload", "p_download", "s_download", "u_download"} -> 2
      [] pc \in {"p_upload", "s_upload", "u_upload"} -> 3

\* the parts of one request, in order: the note body, the project index,
\* the levels of the section shallow to deep, the leaf index
PhaseIndex(w) ==
    CASE wk[w].pc \in {"n_exists", "n_download", "n_upload"} -> 0
      [] wk[w].pc \in {"p_create", "p_reload", "p_download", "p_upload"} -> 1
      [] wk[w].pc \in {"s_create", "s_reload", "s_download", "s_upload"} -> wk[w].lvl + 1
      [] wk[w].pc \in {"u_create", "u_reload", "u_download", "u_upload"} ->
            Len(Parts(w)) + 2

\* steps a request can take at most: MaxRetries attempts of 4 steps per part
MostSteps(i) == (Len(SectionParts(calls[i].section)) + 3) * 4 * MaxRetries

\* how far request i is
Progress(i) ==
    IF Status(i) = "todo" THEN 0
    ELSE IF Status(i) /= "running" THEN MostSteps(i) + 1
    ELSE LET w == CHOOSE v \in Workers : wk[v].id = i
         IN  1 + PhaseIndex(w) * 4 * MaxRetries + wk[w].attempt * 4 + StepIndex(wk[w].pc)

RECURSIVE TotalProgress(_)
TotalProgress(n) == IF n = 0 THEN 0 ELSE Progress(n) + TotalProgress(n - 1)

\* C7: no update is at an attempt beyond the MaxRetries-th, and every step
\* of every request brings it nearer to its end: a request that is running
\* is within its MostSteps steps, and no step goes back or stays in place.
C7_Terminates ==
    /\ [](\A w \in Workers : wk[w].attempt < MaxRetries)
    /\ [](\A i \in CallIds : Progress(i) <= MostSteps(i) + 1)
    /\ [][TotalProgress(Len(calls))' > TotalProgress(Len(calls))]_vars

\* every request has ended, one of them in a conflict on its last attempt
C7_Witness ==
    /\ AllDone
    /\ \E i \in CallIds : Status(i) = "conflict"
    /\ \E i \in CallIds : Status(i) = "ok"

(***************************************************************************)
(* C8                                                                      *)
(***************************************************************************)

\* C8: no request ends with NotFound in the project-level update or in
\* update_section_index because the document disappeared.
C8_DisappearanceNotFatal ==
    \A i \in CallIds :
        ~(Status(i) = "notfound"
          /\ results[i].at \in {"p_reload", "p_download", "u_reload", "u_download"})

(***************************************************************************)
(* C9                                                                      *)
(***************************************************************************)

\* C9: a request whose section has no part writes no index document and
\* ends without error.
C9_EmptySectionNoOp ==
    \A i \in CallIds :
        SectionParts(calls[i].section) = <<>>
            => WritesOf(i) = {} /\ ~Failed(i)

(***************************************************************************)
(* C10                                                                     *)
(***************************************************************************)

\* C10: a request that runs alone after a request with the same arguments
\* has returned makes no successful write.
C10_SecondRunWritesNothing ==
    \A i \in CallIds : results[i].rerun => WritesOf(i) = {}

(***************************************************************************)
(* C11                                                                     *)
(***************************************************************************)

\* s.endswith(suffix)
EndsWith(s, suffix) ==
    Len(s) >= Len(suffix) /\ SubSeq(s, Len(s) - Len(suffix) + 1, Len(s)) = suffix

\* the key is that of an index document
IsIndexKey(key) == EndsWith(key, "/_index.md")

\* the index documents that exist
IndexKeys == {key \in DOMAIN store : IsIndexKey(key)}

\* the lines of a text that are links, as a set
LinkLineSet(text) ==
    LET lines == SplitLines(text)
    IN  {lines[n] : n \in LinkLinesOf(text)}

\* the names the requests link into the document at key: the first part of
\* the section into the project index, part n+1 into the index of the first
\* n parts, the title into the index of the section
LinksTo(key) ==
    {SectionParts(calls[i].section)[1] :
        i \in {j \in CallIds : /\ SectionParts(calls[j].section) /= <<>>
                               /\ ProjectIndexPath(calls[j].project) = key}}
    \cup UNION {{SectionParts(calls[i].section)[n + 1] :
                    n \in {m \in 1..(Len(SectionParts(calls[i].section)) - 1) :
                             PrefixPath(i, m) = key}} : i \in CallIds}
    \cup {calls[i].title :
            i \in {j \in CallIds :
                     SectionIndexPath(calls[j].project, calls[j].section) = key}}

\* the keys the requests link a name into
LinkedKeys ==
    {ProjectIndexPath(calls[i].project) :
        i \in {j \in CallIds : SectionParts(calls[j].section) /= <<>>}}
    \cup UNION {{PrefixPath(i, n) : n \in 1..Len(SectionParts(calls[i].section))} :
                  i \in CallIds}
    \cup {SectionIndexPath(calls[i].project, calls[i].section) : i \in CallIds}

\* C11: when all requests have returned without error, the index documents
\* that exist and the set of link lines of each are those that the requests
\* ask for, whatever the order and the interleaving in which they ran.
C11_OrderIndependent ==
    (AllDone /\ \A i \in CallIds : Status(i) = "ok")
        => /\ IndexKeys = LinkedKeys
           /\ \A key \in LinkedKeys :
                 LinkLineSet(store[key].text)
                     = UNION {LinkLineSet(LinkLine(name)) : name \in LinksTo(key)}

(***************************************************************************)
(* C12                                                                     *)
(***************************************************************************)

NoteSteps == {"n_exists", "n_download", "n_upload"}

\* the key of the note of request i
NoteKey(i) == note_path(calls[i].project, calls[i].section, calls[i].title)

\* request i has uploaded its note body
Uploaded(i) == results[i].noteGen > 0

\* the content request i computed from what it read
ComputedBy(i) ==
    IF calls[i].mode = "replace" \/ results[i].read = ""
    THEN FreshContent(calls[i].title, calls[i].body)
    ELSE AppendedContent(results[i].read, calls[i].body)

\* C12: no request fails in the steps that write the note body, a request
\* at the upload has made no attempt before, and the body the store holds is
\* the content computed by the request whose upload came last, whatever the
\* other requests uploaded in between.
C12_LastWriterWins ==
    /\ \A i \in CallIds : Failed(i) => results[i].at \notin NoteSteps
    /\ \A w \in Workers : wk[w].pc \in NoteSteps => wk[w].attempt = 0
    /\ \A i \in CallIds :
          (Uploaded(i) /\ store[NoteKey(i)].gen = results[i].noteGen)
              => store[NoteKey(i)].text = ComputedBy(i)

\* two requests appended to the same body that both had read, both have
\* returned, and the body holds the entry of one of them only
C12_Witness ==
    \E i, j \in CallIds :
        /\ i /= j /\ NoteKey(i) = NoteKey(j)
        /\ Status(i) = "ok" /\ Status(j) = "ok"
        /\ calls[i].mode = "append" /\ calls[j].mode = "append"
        /\ results[i].read /= "" /\ results[i].read = results[j].read
        /\ store[NoteKey(i)].gen = results[i].noteGen
        /\ store[NoteKey(i)].text = AppendedContent(results[i].read, calls[i].body)
        /\ ~Contains(store[NoteKey(i)].text, Strip(calls[j].body))

(***************************************************************************)
(* C13                                                                     *)
(***************************************************************************)

\* the characters of a string
CharsOf(s) == {Char(s, n) : n \in 1..Len(s)}

\* C13: sanitize returns a string that is not empty and has no `/` and no
\* `\` in it, and returns "unnamed" when every character of the segment is
\* one that is removed (whitespace, control, replaced by `_`, or `_`).
C13_SanitizeSafe ==
    ret.fn = "sanitize"
        => /\ ret.value /= ""
           /\ CharsOf(ret.value) \cap {"/", "\\"} = {}
           /\ CharsOf(arg.segment) \subseteq
                  (Whitespace \cup ControlChars \cup ProblematicChars \cup {"_"})
                  => ret.value = "unnamed"

\* sanitize returned for a segment with both separators and a character that stays
C13_Witness ==
    /\ ret.fn = "sanitize"
    /\ {"/", "\\", "a"} \subseteq CharsOf(arg.segment)
    /\ ret.value /= "unnamed"

(***************************************************************************)
(* C14                                                                     *)
(***************************************************************************)

\* C14: sanitize applied to what sanitize returned returns the same.
C14_SanitizeIdempotent ==
    ret.fn = "sanitize" => sanitize(ret.value) = ret.value

\* sanitize returned something else than the segment and than the fallback
C14_Witness ==
    /\ ret.fn = "sanitize"
    /\ ret.value \notin {arg.segment, "unnamed"}
    /\ Contains(arg.segment, ".")

(***************************************************************************)
(* C15                                                                     *)
(***************************************************************************)

\* the allow-list: letters, digits and the legacy-safe characters
LegacySafe ==
    {"a", "b", "c", "d", "e", "f", "g", "h", "i", "j", "k", "l", "m", "n", "o",
     "p", "q", "r", "s", "t", "u", "v", "w", "x", "y", "z",
     "0", "1", "2", "3", "4", "5", "6", "7", "8", "9",
     "-", "_", ".", "(", ")", "[", "]", "{", "}", "!", "@", "#", "$", "%", "^",
     "&", "+", "=", ",", ";", "'"}

Unsafe == Whitespace \cup ControlChars \cup ProblematicChars

MarkersLen == Len(TRUNCATE_EXISTING) + Len(TRUNCATE_NEW_ENTRY) + Len(TRUNCATE_ELLIPSIS)

\* C16: for every limit >= 0, every mode and every content longer than the
\* limit, what _truncate_content returns is at most limit + MarkersLen long.
C16_TruncationBound ==
    (ret.fn = "truncate" /\ Len(arg.content) > arg.limit)
        => Len(ret.value) <= arg.limit + MarkersLen

(***************************************************************************)
(* C17                                                                     *)
(***************************************************************************)

\* the raw names of the level whose index document is at key
RawNames(key) ==
    {calls[i].project : i \in {j \in CallIds : ProjectIndexPath(calls[j].project) = key}}
    \cup UNION {{SectionParts(calls[i].section)[n] :
                    n \in {m \in 1..Len(SectionParts(calls[i].section)) :
                             PrefixPath(i, m) = key}} : i \in CallIds}
    \cup {calls[i].section :
            i \in {j \in CallIds : /\ SectionParts(calls[j].section) = <<>>
                                   /\ SectionIndexPath(calls[j].project, "") = key}}

\* the level at key is the project root or a section that has a child section
NonLeaf(key) ==
    \/ \E i \in CallIds : ProjectIndexPath(calls[i].project) = key
    \/ \E i \in CallIds : \E n \in 1..(Len(SectionParts(calls[i].section)) - 1) :
          PrefixPath(i, n) = key

\* C17 as stated: every index document is the line `# <raw name>`, an empty
\* line, the line `Sections:` for a level that is not a leaf and `Notes in
\* this section:` for a leaf, and then link lines only.
C17_SectionsOrNotesHeader ==
    \A key \in IndexKeys :
        LET lines == SplitLines(store[key].text)
        IN  /\ Len(lines) >= 3
            /\ lines[1] \in {"# " \o name : name \in RawNames(key)}
            /\ lines[2] = ""
            /\ lines[3] = IF NonLeaf(key) THEN "Sections:" ELSE "Notes in this section:"
            /\ \A n \in 4..Len(lines) : lines[n] \in {LinkLine(name) : name \in AllNames}

\* the successful creation of the index document at key
Creation(key) ==
    CHOOSE wr \in writes : wr.key = key /\ wr.op \in {"p_create", "s_create", "u_create"}

\* the header that the request which created the document at key gives it:
\* `Sections:` for its project, `Subsections and notes:` for a level of its
\* section above the last, `Notes in this section:` for the last
CreationHeader(key) ==
    LET wr == Creation(key)
        parts == SectionParts(calls[wr.id].section)
        n == CHOOSE m \in 1..Len(parts) : PrefixPath(wr.id, m) = key
    IN  CASE wr.op = "p_create" -> "# " \o calls[wr.id].project \o "\n\nSections:\n"
          [] wr.op = "s_create" /\ n < Len(parts) ->
                "# " \o parts[n] \o "\n\nSubsections and notes:\n"
          [] wr.op = "s_create" /\ n = Len(parts) ->
                "# " \o parts[n] \o "\n\nNotes in this section:\n"
          [] wr.op = "u_create" ->
                "# " \o (IF parts = <<>> THEN calls[wr.id].section ELSE parts[Len(parts)])
                     \o "\n\nNotes in this section:\n"

\* the text is a sequence of links `- [[<name>]]`, each ended by a line feed
RECURSIVE OnlyLinks(_)
OnlyLinks(text) ==
    \/ text = ""
    \/ \E name \in AllNames :
          /\ StartsWith(text, LinkLine(name) \o "\n")
          /\ OnlyLinks(Drop(text, Len(LinkLine(name)) + 1))

\* C17 amended: every index document is the header its creating request
\* gave it (the line `# <raw name>`, an empty line, and `Sections:` for the
\* project, `Subsections and notes:` for a level created above the last
\* level of the creating request's section, `Notes in this section:` for one
\* created as the last level), followed only by links `- [[<name>]]`, each
\* ended by a line feed.
C17_CreationHeaderThenLinks ==
    \A key \in IndexKeys :
        /\ StartsWith(store[key].text, CreationHeader(key))
        /\ OnlyLinks(Drop(store[key].text, Len(CreationHeader(key))))

\* an index created above the last level holds the links of two
\* subsections and of a note
C17_Witness ==
    \E key \in IndexKeys :
        /\ Contains(store[key].text, "\n\nSubsections and notes:\n")
        /\ Cardinality(LinkLinesOf(store[key].text)) >= 3

(***************************************************************************)
(* C18                                                                     *)
(***************************************************************************)

Downloads == {"p_download", "s_download", "u_download"}
Uploads == {"p_upload", "s_upload", "u_upload"}

\* the document that the update worker w is in reads and writes
TargetKey(w) ==
    CASE wk[w].pc \in {"p_download", "p_upload"} -> ProjectIndexPath(Req(w).project)
      [] wk[w].pc \in {"s_download", "s_upload"} -> LevelPath(w)
      [] wk[w].pc \in {"u_download", "u_upload"} -> LeafPath(w)

\* the link that update adds
TargetLink(w) ==
    CASE wk[w].pc \in {"p_download", "p_upload"} -> LinkLine(Parts(w)[1])
      [] wk[w].pc \in {"s_download", "s_upload"} -> LinkLine(Parts(w)[wk[w].lvl + 1])
      [] wk[w].pc \in {"u_download", "u_upload"} -> LinkLine(Req(w).title)

\* C18: at every level, an update that has read the current text of its
\* document goes on to write exactly when that text does not contain
\* `- [[<name>]]` as a substring.
C18_SubstringTestAtEveryLevel ==
    [][\A w \in Workers :
          (/\ wk[w].pc \in Downloads
           /\ wk'[w] /= wk[w]
           /\ GenerationMatches(TargetKey(w), wk[w].gen))
              => (wk'[w].pc \in Uploads
                    <=> ~Contains(store[TargetKey(w)].text, TargetLink(w)))]_vars

(***************************************************************************)
(* C19                                                                     *)
(***************************************************************************)

\* C19: the key of the note of a request is not a key that a request links
\* a name into, and no key has been written both by the upload of a note
\* body and by a step of the index maintenance.
C19_NoteAndIndexKeysDisjoint ==
    /\ \A i \in CallIds : NoteKey(i) \notin LinkedKeys /\ ~IsIndexKey(NoteKey(i))
    /\ \A a, b \in writes :
          (a.op = "n_upload" /\ b.op /= "n_upload") => a.key /= b.key

\* a request with the title "_index" has returned; its note and the index
\* of its section both exist
C19_Witness ==
    \E i \in CallIds :
        /\ calls[i].title = "_index"
        /\ Status(i) = "ok"
        /\ Exists(NoteKey(i))
        /\ Exists(SectionIndexPath(calls[i].project, calls[i].section))

(***************************************************************************)
(* C20                                                                     *)
(***************************************************************************)

\* C20: whenever the index document of the first n parts of the section of
\* a request exists, the project index and the index documents of the first
\* m parts, m < n, exist.
C20_PrefixClosed ==
    \A i \in CallIds :
        \A n \in 1..Len(SectionParts(calls[i].section)) :
            Exists(PrefixPath(i, n))
                => /\ Exists(ProjectIndexPath(calls[i].project))
                   /\ \A m \in 1..(n - 1) : Exists(PrefixPath(i, m))

\* a request has failed with a conflict on the index of its section, which
\* exists, while the other requests have returned
C20_Witness ==
    \E i \in CallIds :
        /\ Status(i) = "conflict"
        /\ Exists(PrefixPath(i, Len(SectionParts(calls[i].section))))
        /\ \A j \in CallIds \ {i} : Status(j) = "ok"

(***************************************************************************)
(* C21                                                                     *)
(***************************************************************************)

\* the steps of update_section_index that write the leaf index
LeafWrites == {"u_create", "u_update"}

\* the index of the section of request i
LeafKey(i) == SectionIndexPath(calls[i].project, calls[i].section)

\* the body of request i has been uploaded and a blob is stored at its key
BodyStored(i) == Uploaded(i) /\ Exists(NoteKey(i))

\* C21: the body of a request is stored at note_path(project, section,
\* title) before any index document is written for the request, so a link
\* that the request added to the index of its section refers to a stored
\* body; a request in the index maintenance has its body stored, and the
\* body of a request that ended with a conflict stays stored.
C21_BodyBeforeLink ==
    /\ \A wr \in writes : wr.op /= "n_upload" => BodyStored(wr.id)
    /\ \A w \in Workers :
          wk[w].pc \notin {"idle"} \cup NoteSteps => BodyStored(wk[w].id)
    /\ \A i \in CallIds : Status(i) = "conflict" => BodyStored(i)

\* a request ended with a conflict: its body is stored, the index of its
\* section exists and lacks the link to it, and holds the link that another
\* request added
C21_Witness ==
    \E i \in CallIds :
        /\ Status(i) = "conflict"
        /\ BodyStored(i)
        /\ Exists(LeafKey(i))
        /\ ~LinkInLines(LinkLine(calls[i].title), store[LeafKey(i)].text)
        /\ \E wr \in writes :
              /\ wr.op \in LeafWrites /\ wr.key = LeafKey(i) /\ wr.id /= i
              /\ LinkInLines(LinkLine(calls[wr.id].title), store[LeafKey(i)].text)

====
